---- MODULE Spec2Model ----
(***************************************************************************)
(* The assignment and task-status HTTP handlers of rocket_app              *)
(* (src/rocket_app/src/assignments.rs, src/rocket_app/src/statuses.rs).    *)
(*                                                                         *)
(* Each handler borrows one connection from the r2d2 pool, issues one      *)
(* CrudOperations call on the store and maps the Result to a response.     *)
(* The CrudOperations implementations (crate tasks_db_lib) are modelled    *)
(* from their contract; the handlers are modelled from their code.         *)
(*                                                                         *)
(* Two specifications share the handlers:                                  *)
(*   Spec      one request at a time, each handler one atomic step, with   *)
(*             a log of the last two requests (request/response pairs);    *)
(*   ConcSpec  concurrent requests: a request acquires a connection, and   *)
(*             in a later step runs its store call, responds and drops     *)
(*             the connection.                                             *)
(***************************************************************************)
EXTENDS Integers, FiniteSets, Bags

VARIABLES
    user_tasks,     \* table user_tasks: set of rows [user_id, task_id, task_status_id]
    task_statuses,  \* table task_statuses: [rows, seq], rows [id, status_name]
    borrowed,       \* pool: number of connections currently borrowed
    inflight,       \* bag of requests that hold a connection and have not yet run
    prev,           \* log: the request served just before `last`, kept (in brief)
                    \* when it addressed the same key as `last`
    last            \* log: the last completed request and its response

vars == <<user_tasks, task_statuses, borrowed, inflight, prev, last>>

(***************************************************************************)
(* Bounds and value domains.                                               *)
(***************************************************************************)
PoolMax == 2        \* the pool's configured maximum number of connections
MaxStatusId == 1    \* ids the store hands out before the model stops creating

UserIds == {1, 2}
TaskIds == {1}
StatusRefs == {1, 2}            \* values of task_status_id (not validated)
StatusNames == {"open", "done"}
StatusIds == 1..MaxStatusId

\* UserTaskInput: the JSON body of POST/PUT /assignments.
UserTaskInput == [user_id : UserIds, task_id : TaskIds, task_status_id : StatusRefs]

\* TaskStatusInput: the JSON body of POST/PUT /tasks_statuses.
TaskStatusInput == [status_name : StatusNames]

NoBody == [empty |-> TRUE]

(***************************************************************************)
(* Responses.  Option::None is rendered by Rocket as 404; a panic in a     *)
(* handler is caught by Rocket and rendered as 500.                        *)
(***************************************************************************)
NoContent == [code |-> 404, kind |-> "none", rows |-> {}, count |-> 0]

Panic == [code |-> 500, kind |-> "panic", rows |-> {}, count |-> 0]

JsonEntity(e) == [code |-> 200, kind |-> "entity", rows |-> {e}, count |-> 0]

\* A JSON array; the order is the store's and is not modelled.
JsonList(s) == [code |-> 200, kind |-> "list", rows |-> s, count |-> 0]

JsonCount(n) == [code |-> 200, kind |-> "count", rows |-> {}, count |-> n]

(***************************************************************************)
(* The store and CrudOperations (tasks_db_lib).  A result is               *)
(* [ok, val, n, tbl]: Ok/Err, the entity (a set of at most one row), the   *)
(* row count, and the table after the statement.  fault is a store-level   *)
(* I/O error: the statement fails and changes nothing.                     *)
(***************************************************************************)
Err(tbl) == [ok |-> FALSE, val |-> {}, n |-> 0, tbl |-> tbl]

Ok(val, n, tbl) == [ok |-> TRUE, val |-> val, n |-> n, tbl |-> tbl]

UserTaskRow(n) ==
    [user_id |-> n.user_id, task_id |-> n.task_id, task_status_id |-> n.task_status_id]

\* The rows of user_tasks under primary key (user_id, task_id).
UserTaskAt(tbl, key) == {r \in tbl : r.user_id = key[1] /\ r.task_id = key[2]}

UserTaskKey(n) == <<n.user_id, n.task_id>>

\* Faulty variant: a table without the primary key.
NoPrimaryKey(others, n) == FALSE

\* The store's composite primary key: a write of row n that leaves the rows
\* `others` in place is rejected when one of them has n's (user_id, task_id).
PrimaryKeyViolated(others, n) == UserTaskAt(others, UserTaskKey(n)) # {}

UserTask_read_all(tbl, fault) ==
    IF fault THEN Err(tbl) ELSE Ok(tbl, Cardinality(tbl), tbl)

UserTask_read(tbl, key, fault) ==
    IF fault THEN Err(tbl) ELSE Ok(UserTaskAt(tbl, key), 0, tbl)

UserTask_create(tbl, n, fault) ==
    IF fault \/ PrimaryKeyViolated(tbl, n) THEN Err(tbl)
    ELSE Ok({UserTaskRow(n)}, 1, tbl \cup {UserTaskRow(n)})

UserTask_update(tbl, key, n, fault) ==
    LET old == UserTaskAt(tbl, key)
        others == tbl \ old
    IN  IF fault \/ old = {} \/ PrimaryKeyViolated(others, n) THEN Err(tbl)
        ELSE Ok({UserTaskRow(n)}, 1, others \cup {UserTaskRow(n)})

UserTask_delete(tbl, key, fault) ==
    LET old == UserTaskAt(tbl, key)
    IN  IF fault THEN Err(tbl) ELSE Ok({}, Cardinality(old), tbl \ old)

\* task_statuses is [rows, seq]: the rows and the store's autoincrement
\* sequence (the id of the next inserted row).
TaskStatusAt(tbl, id) == {r \in tbl.rows : r.id = id}

TaskStatus_read_all(tbl, fault) ==
    IF fault THEN Err(tbl) ELSE Ok(tbl.rows, Cardinality(tbl.rows), tbl)

TaskStatus_read(tbl, id, fault) ==
    IF fault THEN Err(tbl) ELSE Ok(TaskStatusAt(tbl, id), 0, tbl)

TaskStatus_create(tbl, n, fault) ==
    LET row == [id |-> tbl.seq, status_name |-> n.status_name]
    IN  IF fault THEN Err(tbl)
        ELSE Ok({row}, 1, [rows |-> tbl.rows \cup {row}, seq |-> tbl.seq + 1])

TaskStatus_update(tbl, id, n, fault) ==
    LET old == TaskStatusAt(tbl, id)
        row == [id |-> id, status_name |-> n.status_name]
    IN  IF fault \/ old = {} THEN Err(tbl)
        ELSE Ok({row}, 1, [tbl EXCEPT !.rows = (tbl.rows \ old) \cup {row}])

TaskStatus_delete(tbl, id, fault) ==
    LET old == TaskStatusAt(tbl, id)
    IN  IF fault THEN Err(tbl)
        ELSE Ok({}, Cardinality(old), [tbl EXCEPT !.rows = tbl.rows \ old])

(***************************************************************************)
(* Result/Option plumbing of the handlers.                                 *)
(***************************************************************************)
\* result.ok().map(Json) on a Result<E>
OkMapJson(r) == IF r.ok THEN JsonEntity(CHOOSE e \in r.val : TRUE) ELSE NoContent

\* result.ok().flatten().map(Json) on a Result<Option<E>>
OkFlattenMapJson(r) ==
    IF r.ok /\ r.val # {} THEN JsonEntity(CHOOSE e \in r.val : TRUE) ELSE NoContent

\* result.ok().map(Json) on a Result<usize>
OkMapJsonCount(r) == IF r.ok THEN JsonCount(r.n) ELSE NoContent

\* Json(result.unwrap_or_default()) on a Result<Vec<E>>
UnwrapOrDefaultJson(r) == JsonList(IF r.ok THEN r.val ELSE {})

\* What a handler returns: the response and the table after it.
Out(resp, tbl) == [resp |-> resp, tbl |-> tbl]

(***************************************************************************)
(* The handlers.  conn is what pool.get() returned ("ok" or "err"); each   *)
(* returns its response and the table its store call leaves.               *)
(***************************************************************************)
get_user_tasks(conn, tbl, fault) ==
    IF conn = "err" THEN Out(Panic, tbl)              \* .expect("db connection")
    ELSE LET r == UserTask_read_all(tbl, fault)
         IN  Out(UnwrapOrDefaultJson(r), r.tbl)

get_user_task(conn, tbl, user_id, task_id, fault) ==
    IF conn = "err" THEN Out(NoContent, tbl)          \* pool.get().ok()?
    ELSE LET r == UserTask_read(tbl, <<user_id, task_id>>, fault)
         IN  Out(OkFlattenMapJson(r), r.tbl)

\* Faulty variant: falls back to an insert when the update fails (an upsert).
update_user_task_upsert(conn, tbl, user_id, task_id, user_task, fault) ==
    IF conn = "err" THEN Out(NoContent, tbl)
    ELSE LET updated_user_task ==
                 [user_id |-> user_task.user_id,
                  task_id |-> user_task.task_id,
                  task_status_id |-> user_task.task_status_id]
             u == UserTask_update(tbl, <<user_id, task_id>>, updated_user_task, fault)
             r == IF u.ok THEN u ELSE UserTask_create(tbl, updated_user_task, fault)
         IN  Out(OkMapJson(r), r.tbl)

\* Faulty variant: writes the path's user_id/task_id instead of the body's.
update_user_task_keep_key(conn, tbl, user_id, task_id, user_task, fault) ==
    IF conn = "err" THEN Out(NoContent, tbl)
    ELSE LET updated_user_task ==
                 [user_id |-> user_id,
                  task_id |-> task_id,
                  task_status_id |-> user_task.task_status_id]
             r == UserTask_update(tbl, <<user_id, task_id>>, updated_user_task, fault)
         IN  Out(OkMapJson(r), r.tbl)

update_user_task(conn, tbl, user_id, task_id, user_task, fault) ==
    IF conn = "err" THEN Out(NoContent, tbl)
    ELSE LET updated_user_task ==
                 [user_id |-> user_task.user_id,
                  task_id |-> user_task.task_id,
                  task_status_id |-> user_task.task_status_id]
             r == UserTask_update(tbl, <<user_id, task_id>>, updated_user_task, fault)
         IN  Out(OkMapJson(r), r.tbl)

\* Faulty variant: answers with the payload whatever the insert returned.
create_user_task_unchecked(conn, tbl, user_task, fault) ==
    IF conn = "err" THEN Out(NoContent, tbl)
    ELSE LET new_user_task ==
                 [user_id |-> user_task.user_id,
                  task_id |-> user_task.task_id,
                  task_status_id |-> user_task.task_status_id]
             r == UserTask_create(tbl, new_user_task, fault)
         IN  Out(JsonEntity(UserTaskRow(new_user_task)), r.tbl)

create_user_task(conn, tbl, user_task, fault) ==
    IF conn = "err" THEN Out(NoContent, tbl)
    ELSE LET new_user_task ==
                 [user_id |-> user_task.user_id,
                  task_id |-> user_task.task_id,
                  task_status_id |-> user_task.task_status_id]
             r == UserTask_create(tbl, new_user_task, fault)
         IN  Out(OkMapJson(r), r.tbl)

\* Faulty variant: maps a count of 0 rows to None.
delete_user_task_none_on_zero(conn, tbl, user_id, task_id, fault) ==
    IF conn = "err" THEN Out(NoContent, tbl)
    ELSE LET r == UserTask_delete(tbl, <<user_id, task_id>>, fault)
         IN  Out(IF r.ok /\ r.n > 0 THEN JsonCount(r.n) ELSE NoContent, r.tbl)

\* Faulty variant: passes the key as (task_id, user_id).
delete_user_task_swapped(conn, tbl, user_id, task_id, fault) ==
    IF conn = "err" THEN Out(NoContent, tbl)
    ELSE LET r == UserTask_delete(tbl, <<task_id, user_id>>, fault)
         IN  Out(OkMapJsonCount(r), r.tbl)

delete_user_task(conn, tbl, user_id, task_id, fault) ==
    IF conn = "err" THEN Out(NoContent, tbl)
    ELSE LET r == UserTask_delete(tbl, <<user_id, task_id>>, fault)
         IN  Out(OkMapJsonCount(r), r.tbl)

get_task_statuses(conn, tbl, fault) ==
    IF conn = "err" THEN Out(Panic, tbl)              \* .expect("db connection")
    ELSE LET r == TaskStatus_read_all(tbl, fault)
         IN  Out(UnwrapOrDefaultJson(r), r.tbl)

\* Faulty variant: pool.get().expect(..) as in the list handlers.
get_task_status_expect(conn, tbl, id, fault) ==
    IF conn = "err" THEN Out(Panic, tbl)
    ELSE LET r == TaskStatus_read(tbl, id, fault)
         IN  Out(OkFlattenMapJson(r), r.tbl)

get_task_status(conn, tbl, id, fault) ==
    IF conn = "err" THEN Out(NoContent, tbl)
    ELSE LET r == TaskStatus_read(tbl, id, fault)
         IN  Out(OkFlattenMapJson(r), r.tbl)

update_task_status(conn, tbl, id, task_status, fault) ==
    IF conn = "err" THEN Out(NoContent, tbl)
    ELSE LET updated_task_status == [status_name |-> task_status.status_name]
             r == TaskStatus_update(tbl, id, updated_task_status, fault)
         IN  Out(OkMapJson(r), r.tbl)

create_task_status(conn, tbl, task_status, fault) ==
    IF conn = "err" THEN Out(NoContent, tbl)
    ELSE LET new_task_status == [status_name |-> task_status.status_name]
             r == TaskStatus_create(tbl, new_task_status, fault)
         IN  Out(OkMapJson(r), r.tbl)

delete_task_status(conn, tbl, id, fault) ==
    IF conn = "err" THEN Out(NoContent, tbl)
    ELSE LET r == TaskStatus_delete(tbl, id, fault)
         IN  Out(OkMapJsonCount(r), r.tbl)

(***************************************************************************)
(* Requests: the handler a route selects, its path parameters (key) and    *)
(* its JSON body.                                                          *)
(***************************************************************************)
Req(h, key, body) == [h |-> h, key |-> key, body |-> body]

AssignmentKeys == {<<u, t>> : u \in UserIds, t \in TaskIds}

StatusKeys == {<<i>> : i \in StatusIds}

AssignmentRequests ==
    {Req("get_user_tasks", <<>>, NoBody)}
    \cup {Req("get_user_task", k, NoBody) : k \in AssignmentKeys}
    \cup {Req("update_user_task", k, b) : k \in AssignmentKeys, b \in UserTaskInput}
    \cup {Req("create_user_task", <<>>, b) : b \in UserTaskInput}
    \cup {Req("delete_user_task", k, NoBody) : k \in AssignmentKeys}

StatusRequests ==
    {Req("get_task_statuses", <<>>, NoBody)}
    \cup {Req("get_task_status", k, NoBody) : k \in StatusKeys}
    \cup {Req("update_task_status", k, b) : k \in StatusKeys, b \in TaskStatusInput}
    \cup {Req("create_task_status", <<>>, b) : b \in TaskStatusInput}
    \cup {Req("delete_task_status", k, NoBody) : k \in StatusKeys}

Requests == AssignmentRequests \cup StatusRequests

ListHandlers == {"get_user_tasks", "get_task_statuses"}

AssignmentHandlers == {r.h : r \in AssignmentRequests}

\* How a request can fail below the handler: pool.get() returns Err
\* ("pool": no connection could be had within the pool's timeout, because
\* all are borrowed or none can be opened), or the store call fails with an
\* I/O error ("io").
Failures == {"none", "pool", "io"}

ConnOf(fail) == IF fail = "pool" THEN "err" ELSE "ok"

\* Route dispatch: the tables after request k and its response.
Handle(k, fail) ==
    LET conn == ConnOf(fail)
        fault == (fail = "io")
        OnAssignments(o) == [resp |-> o.resp, ut |-> o.tbl, ts |-> task_statuses]
        OnStatuses(o) == [resp |-> o.resp, ut |-> user_tasks, ts |-> o.tbl]
    IN  CASE k.h = "get_user_tasks" ->
               OnAssignments(get_user_tasks(conn, user_tasks, fault))
          [] k.h = "get_user_task" ->
               OnAssignments(get_user_task(conn, user_tasks, k.key[1], k.key[2], fault))
          [] k.h = "update_user_task" ->
               OnAssignments(update_user_task(conn, user_tasks, k.key[1], k.key[2],
                                              k.body, fault))
          [] k.h = "create_user_task" ->
               OnAssignments(create_user_task(conn, user_tasks, k.body, fault))
          [] k.h = "delete_user_task" ->
               OnAssignments(delete_user_task(conn, user_tasks, k.key[1], k.key[2], fault))
          [] k.h = "get_task_statuses" ->
               OnStatuses(get_task_statuses(conn, task_statuses, fault))
          [] k.h = "get_task_status" ->
               OnStatuses(get_task_status(conn, task_statuses, k.key[1], fault))
          [] k.h = "update_task_status" ->
               OnStatuses(update_task_status(conn, task_statuses, k.key[1], k.body, fault))
          [] k.h = "create_task_status" ->
               OnStatuses(create_task_status(conn, task_statuses, k.body, fault))
          [] k.h = "delete_task_status" ->
               OnStatuses(delete_task_status(conn, task_statuses, k.key[1], fault))

(***************************************************************************)
(* The pool.  pool.get() hands out a connection while fewer than PoolMax   *)
(* are borrowed; the handler's `conn` is dropped, and so returned to the   *)
(* pool, when the handler returns.                                         *)
(***************************************************************************)
pool_get(b) == b + 1

\* Faulty variant: the connection is never returned.
leak_conn(b) == b

drop_conn(b) == b - 1

\* The model stops admitting POST /tasks_statuses once the ids are used up.
Admissible(k, pending) ==
    k.h = "create_task_status" => task_statuses.seq + pending <= MaxStatusId

PendingCreates ==
    LET creates == {k \in BagToSet(inflight) : k.h = "create_task_status"}
    IN  BagCardinality([k \in creates |-> inflight[k]])

(***************************************************************************)
(* The log of Spec.                                                        *)
(***************************************************************************)
\* The key a request addresses: its path parameters, or for POST /assignments
\* the body's (user_id, task_id).
KeyOf(k) == IF k.h = "create_user_task" THEN UserTaskKey(k.body) ELSE k.key

\* Whether the row request k addresses is in the store.
Present(k) ==
    CASE k.h \in ListHandlers \cup {"create_task_status"} -> FALSE
      [] k.h \in AssignmentHandlers -> UserTaskAt(user_tasks, KeyOf(k)) # {}
      [] OTHER -> TaskStatusAt(task_statuses, k.key[1]) # {}

\* Whether PUT /assignments carries a (user_id, task_id) that another row holds.
Clash(k) ==
    /\ k.h = "update_user_task"
    /\ UserTaskKey(k.body) # k.key
    /\ UserTaskAt(user_tasks, UserTaskKey(k.body)) # {}

Entry(k, fail, o) ==
    [h |-> k.h, key |-> KeyOf(k), body |-> k.body, fail |-> fail,
     existed |-> Present(k), clash |-> Clash(k),
     same |-> (o.ut = user_tasks /\ o.ts = task_statuses),
     delta |-> Cardinality(o.ut) - Cardinality(user_tasks),
     resp |-> o.resp]

Brief(e) ==
    [h |-> e.h, key |-> e.key, body |-> e.body, fail |-> e.fail,
     code |-> e.resp.code, existed |-> e.existed]

NoEntry ==
    [h |-> "none", key |-> <<>>, body |-> NoBody, fail |-> "none",
     existed |-> FALSE, clash |-> FALSE, same |-> TRUE, delta |-> 0,
     resp |-> NoContent]

(***************************************************************************)
(* Spec: one request at a time.  Serve is a whole handler: pool.get(), the *)
(* store call, the response, and the drop of the connection.               *)
(***************************************************************************)
Init ==
    /\ user_tasks = {}
    /\ task_statuses = [rows |-> {}, seq |-> 1]
    /\ borrowed = 0
    /\ inflight = EmptyBag
    /\ prev = Brief(NoEntry)
    /\ last = NoEntry

Serve(k, fail) ==
    LET o == Handle(k, fail)
    IN  /\ user_tasks' = o.ut
        /\ task_statuses' = o.ts
        /\ borrowed' = IF fail = "pool" THEN borrowed ELSE drop_conn(pool_get(borrowed))
        /\ prev' = IF last.key = KeyOf(k) THEN Brief(last) ELSE Brief(NoEntry)
        /\ last' = Entry(k, fail, o)
        /\ UNCHANGED inflight

\* No request is in progress.
Idle == inflight = EmptyBag /\ borrowed = 0

GetUserTasks ==
    \E fail \in Failures :
        /\ Idle
        /\ Serve(Req("get_user_tasks", <<>>, NoBody), fail)

GetUserTask ==
    \E key \in AssignmentKeys, fail \in Failures :
        /\ Idle
        /\ Serve(Req("get_user_task", key, NoBody), fail)

UpdateUserTask ==
    \E key \in AssignmentKeys, user_task \in UserTaskInput, fail \in Failures :
        /\ Idle
        /\ Serve(Req("update_user_task", key, user_task), fail)

CreateUserTask ==
    \E user_task \in UserTaskInput, fail \in Failures :
        /\ Idle
        /\ Serve(Req("create_user_task", <<>>, user_task), fail)

DeleteUserTask ==
    \E key \in AssignmentKeys, fail \in Failures :
        /\ Idle
        /\ Serve(Req("delete_user_task", key, NoBody), fail)

GetTaskStatuses ==
    \E fail \in Failures :
        /\ Idle
        /\ Serve(Req("get_task_statuses", <<>>, NoBody), fail)

GetTaskStatus ==
    \E key \in StatusKeys, fail \in Failures :
        /\ Idle
        /\ Serve(Req("get_task_status", key, NoBody), fail)

UpdateTaskStatus ==
    \E key \in StatusKeys, task_status \in TaskStatusInput, fail \in Failures :
        /\ Idle
        /\ Serve(Req("update_task_status", key, task_status), fail)

CreateTaskStatus ==
    \E task_status \in TaskStatusInput, fail \in Failures :
        /\ Idle
        /\ Admissible(Req("create_task_status", <<>>, task_status), 0)
        /\ Serve(Req("create_task_status", <<>>, task_status), fail)

DeleteTaskStatus ==
    \E key \in StatusKeys, fail \in Failures :
        /\ Idle
        /\ Serve(Req("delete_task_status", key, NoBody), fail)

Next ==
    \/ GetUserTasks
    \/ GetUserTask
    \/ UpdateUserTask
    \/ CreateUserTask
    \/ DeleteUserTask
    \/ GetTaskStatuses
    \/ GetTaskStatus
    \/ UpdateTaskStatus
    \/ CreateTaskStatus
    \/ DeleteTaskStatus

Spec == Init /\ [][Next]_vars

(***************************************************************************)
(* ConcSpec: concurrent requests.  Each store call is one statement, which *)
(* the store runs atomically.                                              *)
(***************************************************************************)
\* pool.get() returns a connection: the request now holds it.
Acquire(k) ==
    /\ borrowed < PoolMax
    /\ Admissible(k, PendingCreates)
    /\ borrowed' = pool_get(borrowed)
    /\ inflight' = inflight (+) SetToBag({k})
    /\ UNCHANGED <<user_tasks, task_statuses, prev, last>>

\* pool.get() returns Err: the handler returns (or panics) without a connection.
AcquireErr(k) ==
    LET o == Handle(k, "pool")
    IN  /\ user_tasks' = o.ut
        /\ task_statuses' = o.ts
        /\ UNCHANGED <<borrowed, inflight, prev, last>>

\* The store call, the response, and the drop of the connection.
Exec(k, fail) ==
    LET o == Handle(k, fail)
    IN  /\ BagIn(k, inflight)
        /\ user_tasks' = o.ut
        /\ task_statuses' = o.ts
        /\ inflight' = inflight (-) SetToBag({k})
        /\ borrowed' = drop_conn(borrowed)
        /\ UNCHANGED <<prev, last>>

ConcNext ==
    \/ \E k \in Requests : Acquire(k)
    \/ \E k \in Requests : AcquireErr(k)
    \/ \E k \in Requests, fail \in Failures \ {"pool"} : Exec(k, fail)

ConcSpec == Init /\ [][ConcNext]_vars

(***************************************************************************)
(* Properties.                                                             *)
(***************************************************************************)
DeleteHandlers == {"delete_user_task", "delete_task_status"}

UpdateHandlers == {"update_user_task", "update_task_status"}

ReadHandlers == {"get_user_task", "get_task_status"}

SingleHandlers ==
    ReadHandlers \cup UpdateHandlers \cup DeleteHandlers
        \cup {"create_user_task", "create_task_status"}

\* The GET-by-key handler of the entity that handler h works on.
GetHandlerOf(h) == IF h \in AssignmentHandlers THEN "get_user_task" ELSE "get_task_status"

\* `last` was served right after `prev`, by handler h2 after h1, at the same key.
Followed(h1, h2) == prev.h = h1 /\ last.h = h2 /\ last.key = prev.key

\* C1 as stated: a POST /assignments with P immediately followed by
\* GET /assignments/{P.user_id}/{P.task_id} returns an assignment equal to P
\* (stated for a POST and a GET that both get their connection and meet no
\* I/O error, where it already fails).
C1_PostThenGetReturnsP ==
    (Followed("create_user_task", "get_user_task")
        /\ prev.fail = "none" /\ last.fail = "none")
        => last.resp = JsonEntity(UserTaskRow(prev.body))

\* C1 amended: when the POST with P succeeded (it returned the assignment),
\* the GET that follows it returns P, and "no content found" only if that
\* GET itself gets no connection or its read fails.
C1_SuccessfulPostThenGet ==
    (Followed("create_user_task", "get_user_task") /\ prev.code = 200)
        => last.resp = IF last.fail = "none"
                       THEN JsonEntity(UserTaskRow(prev.body))
                       ELSE NoContent

C1_Witness ==
    /\ Followed("create_user_task", "get_user_task")
    /\ prev.code = 200
    /\ last.fail = "none"
    /\ last.resp = JsonEntity(UserTaskRow(prev.body))

\* C2 as stated: DELETE on a key that is not in the store returns "no
\* content found", not a success response, and leaves the store unchanged.
C2_DeleteAbsentIsNoContent ==
    (last.h \in DeleteHandlers /\ ~last.existed)
        => (last.resp = NoContent /\ last.same)

\* C2 amended: DELETE on a key that is not in the store leaves the store
\* unchanged and returns the success response with count 0 ("no content
\* found" only when the connection or the store call fails, never a crash);
\* a DELETE repeated after a successful DELETE of the same key leaves the
\* store unchanged.
C2_DeleteAbsentIsZero ==
    /\ (last.h \in DeleteHandlers /\ ~last.existed)
          => /\ last.same
             /\ last.resp = IF last.fail = "none" THEN JsonCount(0) ELSE NoContent
    /\ \A h \in DeleteHandlers :
          (Followed(h, h) /\ prev.code = 200) => (~last.existed /\ last.same)

C2_Witness ==
    /\ Followed("delete_user_task", "delete_user_task")
    /\ prev.existed
    /\ prev.code = 200
    /\ last.fail = "none"
    /\ last.resp = JsonCount(0)

\* C3 as stated: the two list handlers never surface an error or crash; on
\* any failure, a failed pool.get() included, they answer an empty sequence.
C3_ListNeverFails ==
    last.h \in ListHandlers
        => /\ last.resp.kind = "list"
           /\ last.fail # "none" => last.resp = JsonList({})

\* C4: PUT on a key that is not in the store returns "no content found" and
\* leaves the store unchanged, and a GET at that key right after it returns
\* "no content found" too.
C4_PutAbsentCreatesNothing ==
    /\ (last.h \in UpdateHandlers /\ ~last.existed)
          => (last.resp = NoContent /\ last.same)
    /\ \A h \in UpdateHandlers :
          (Followed(h, GetHandlerOf(h)) /\ ~prev.existed) => last.resp = NoContent

C4_Witness ==
    /\ Followed("update_user_task", "get_user_task")
    /\ ~prev.existed
    /\ prev.code = 404
    /\ last.fail = "none"
    /\ last.resp = NoContent
    /\ user_tasks # {}

\* C5 as stated: for a key K in the store, a DELETE at K immediately
\* followed by a GET at K returns "no content found".
C5_DeleteThenGet ==
    \A h \in DeleteHandlers :
        (Followed(h, GetHandlerOf(h)) /\ prev.existed) => last.resp = NoContent

\* C5 amended: for a key K in the store, a DELETE at K that succeeds (it
\* returns the count) immediately followed by a GET at K returns "no content
\* found".
C5_SuccessfulDeleteThenGet ==
    \A h \in DeleteHandlers :
        (Followed(h, GetHandlerOf(h)) /\ prev.existed /\ prev.code = 200)
            => last.resp = NoContent

C5_Witness ==
    /\ Followed("delete_task_status", "get_task_status")
    /\ prev.existed
    /\ prev.code = 200
    /\ last.fail = "none"
    /\ last.resp = NoContent

\* The request failed: pool.get() returned Err, or the store call did (I/O
\* error, primary-key violation, no row at the key of a read or an update).
Failed(e) ==
    \/ e.fail # "none"
    \/ e.h = "create_user_task" /\ e.existed
    \/ e.clash
    \/ e.h \in ReadHandlers \cup UpdateHandlers /\ ~e.existed

C7_PutWritesBody ==
    (last.h = "update_user_task" /\ last.existed /\ last.fail = "none")
        => /\ last.resp = JsonEntity(UserTaskRow(last.body))
           /\ UserTaskRow(last.body) \in user_tasks

\* C7 amended: PUT on an existing row, when the connection is acquired, the
\* store call meets no I/O error and the body's (user_id, task_id) is the
\* path's or one no other row holds, replaces the row the path selects by
\* the body's three fields and returns an entity equal to the body;
\* otherwise it returns "no content found" and changes nothing.
C7_PutWritesBodyUnlessRejected ==
    (last.h = "update_user_task" /\ last.existed)
        => IF last.fail = "none" /\ ~last.clash
           THEN /\ last.resp = JsonEntity(UserTaskRow(last.body))
                /\ UserTaskRow(last.body) \in user_tasks
                /\ UserTaskKey(last.body) # last.key
                       => UserTaskAt(user_tasks, last.key) = {}
                /\ last.delta = 0
           ELSE last.resp = NoContent /\ last.same

C7_Witness ==
    /\ last.h = "update_user_task"
    /\ last.existed
    /\ UserTaskKey(last.body) # last.key
    /\ last.resp = JsonEntity(UserTaskRow(last.body))
    /\ UserTaskAt(user_tasks, last.key) = {}

\* C8 as stated: on an empty store GET /assignments and GET /tasks_statuses
\* each return 200 with an empty array, never an error status.
C8_EmptyStoreLists ==
    /\ (last.h = "get_user_tasks" /\ user_tasks = {}) => last.resp = JsonList({})
    /\ (last.h = "get_task_statuses" /\ task_statuses.rows = {})
           => last.resp = JsonList({})

\* C9: under any interleaving of POST, PUT and DELETE on assignments the
\* store holds at most one row per (user_id, task_id).
C9_OneRowPerPair ==
    \A key \in AssignmentKeys : Cardinality(UserTaskAt(user_tasks, key)) <= 1

\* Both pairs are stored while a POST of a stored pair and a PUT whose body
\* names the other stored pair hold connections.
C9_Witness ==
    /\ \A key \in AssignmentKeys : UserTaskAt(user_tasks, key) # {}
    /\ \E k1, k2 \in BagToSet(inflight) :
          /\ k1.h = "create_user_task"
          /\ UserTaskRow(k1.body) \notin user_tasks
          /\ k2.h = "update_user_task"
          /\ UserTaskKey(k2.body) # k2.key

\* C10: every request in flight holds exactly one connection, no more than
\* PoolMax connections are borrowed at once, and when no request is in
\* flight none is borrowed.
C10_PoolAccounting ==
    /\ borrowed = BagCardinality(inflight)
    /\ borrowed >= 0
    /\ borrowed <= PoolMax
    /\ inflight = EmptyBag => borrowed = 0

\* The pool is exhausted by requests that came after completed ones.
C10_Witness ==
    /\ borrowed = PoolMax
    /\ BagCardinality(inflight) = PoolMax
    /\ user_tasks # {}
    /\ task_statuses.rows # {}

====
